---------------------------- MODULE Spec2Model ----------------------------
(***************************************************************************)
(* Model of the append-reconciliation logic of utils/sheets.py and of its  *)
(* near-duplicate utils/scraping.py: one monthly worksheet (header row and *)
(* data rows), and guardar_en_hoja with its helpers.                       *)
(*                                                                         *)
(* Text is modelled character by character: a string is a sequence of      *)
(* one-character atoms.  The non-ASCII characters of the source are        *)
(* written as ASCII atoms: "a^" "e^" "i^" "o^" "u^" are the acute-accented *)
(* vowels, "A^".."U^" their capitals, "n~" / "N~" the n with tilde and     *)
(* "deg" the degree sign.                                                  *)
(***************************************************************************)
EXTENDS Integers, Sequences, FiniteSets, TLC

VARIABLES
    existe,     \* the worksheet of the target month exists
    header,     \* row 1 of the worksheet, as row_values(1) returns it
    rows,       \* the rows below the header; a row is a sequence of cells
    base,       \* how many rows the worksheet held before the first call
    pedido,     \* the arguments of the calls: resultados and fecha_objetivo
    ult,        \* what the last call did
    inv         \* the calls that run step by step: where each one is and
                \* what it has read

vars == <<existe, header, rows, base, pedido, ult, inv>>

-----------------------------------------------------------------------------
(* Bounds of the model *)

\* most records in one call
MaxRecs == 2
\* most data rows of the worksheet
MaxRows == 3

-----------------------------------------------------------------------------
(* Characters and strings *)

Digits == <<"0", "1", "2", "3", "4", "5", "6", "7", "8", "9">>

Upper == <<"A", "B", "C", "D", "E", "F", "G", "H", "I", "J", "K", "L", "M",
           "N", "O", "P", "Q", "R", "S", "T", "U", "V", "W", "X", "Y", "Z",
           "A^", "E^", "I^", "O^", "U^", "N~">>

Lower == <<"a", "b", "c", "d", "e", "f", "g", "h", "i", "j", "k", "l", "m",
           "n", "o", "p", "q", "r", "s", "t", "u", "v", "w", "x", "y", "z",
           "a^", "e^", "i^", "o^", "u^", "n~">>

DigitSet == {Digits[i] : i \in 1..Len(Digits)}

\* ch.isdigit()
isdigit(ch) == ch \in DigitSet

\* the value of a digit character
DigitVal(ch) == (CHOOSE i \in 1..Len(Digits) : Digits[i] = ch) - 1

UpperSet == {Upper[i] : i \in 1..Len(Upper)}

\* ch.lower()
lower(ch) ==
    IF ch \in UpperSet
    THEN Lower[CHOOSE i \in 1..Len(Upper) : Upper[i] = ch]
    ELSE ch

\* s.lstrip() and s.rstrip(): blanks are the only whitespace of the model
RECURSIVE lstrip(_)
lstrip(s) == IF s # <<>> /\ Head(s) = " " THEN lstrip(Tail(s)) ELSE s

RECURSIVE rstrip(_)
rstrip(s) ==
    IF s # <<>> /\ s[Len(s)] = " " THEN rstrip(SubSeq(s, 1, Len(s) - 1)) ELSE s

\* s.strip(): s without its leading and trailing blanks
strip(s) == rstrip(lstrip(s))

\* .replace of the accented vowels and of n-tilde by their base letters
SinAcento(ch) ==
    CASE ch = "a^" -> "a"
      [] ch = "e^" -> "e"
      [] ch = "i^" -> "i"
      [] ch = "o^" -> "o"
      [] ch = "u^" -> "u"
      [] ch = "n~" -> "n"
      [] OTHER -> ch

\* scraping.py: strip, lower, fold accents
_normaliza(s) ==
    LET t == strip(s)
    IN  [i \in 1..Len(t) |-> SinAcento(lower(t[i]))]

\* sheets.py: as _normaliza, and the degree sign is deleted
_norm(s) ==
    LET t == strip(s)
        u == [i \in 1..Len(t) |-> SinAcento(lower(t[i]))]
    IN  SelectSeq(u, LAMBDA ch : ch # "deg")

\* int(digits) of a string of digit characters
RECURSIVE int(_)
int(ds) ==
    IF ds = <<>> THEN 0
    ELSE 10 * int(SubSeq(ds, 1, Len(ds) - 1)) + DigitVal(ds[Len(ds)])

\* the decimal text of a natural number, as the worksheet shows a number
RECURSIVE str(_)
str(n) ==
    IF n < 10 THEN <<Digits[n + 1]>>
    ELSE Append(str(n \div 10), Digits[(n % 10) + 1])

-----------------------------------------------------------------------------
(* Column names *)

Numero        == <<"N", "u^", "m", "e", "r", "o">>
FyHExtraccion == <<"F", "y", "H", " ", "E", "x", "t", "r", "a", "c", "c", "i", "o^", "n">>
FyHPublicacion == <<"F", "y", "H", " ", "P", "u", "b", "l", "i", "c", "a", "c", "i", "o^", "n">>
ID            == <<"I", "D">>
Titulo        == <<"T", "i^", "t", "u", "l", "o">>
Descripcion   == <<"D", "e", "s", "c", "r", "i", "p", "c", "i", "o^", "n">>
Tipo          == <<"T", "i", "p", "o">>
Monto         == <<"M", "o", "n", "t", "o">>
TipoMonto     == <<"T", "i", "p", "o", " ", "M", "o", "n", "t", "o">>
LinkFicha     == <<"L", "I", "N", "K", " ", "F", "I", "C", "H", "A">>
FyHTerreno    == <<"F", "y", "H", " ", "T", "E", "R", "R", "E", "N", "O">>
Oblig         == <<"O", "B", "L", "I", "G", "?">>
FyHCierre     == <<"F", "y", "H", " ", "C", "I", "E", "R", "R", "E">>

\* the canonical header, in canonical order
columnas_ordenadas ==
    <<Numero, FyHExtraccion, FyHPublicacion, ID, Titulo, Descripcion, Tipo,
      Monto, TipoMonto, LinkFicha, FyHTerreno, Oblig, FyHCierre>>

\* the producer field that fills each canonical column after the first
campos ==
    <<"fecha_extraccion", "fecha_publicacion", "id", "titulo", "descripcion",
      "tipo", "monto", "tipo_monto", "link_ficha", "fecha_visita",
      "visita_obligatoria", "fecha_cierre">>

\* the names under which the sequence column is looked up, in priority order
candidatosNumero ==
    <<Numero,
      <<"N", "u", "m", "e", "r", "o">>,
      <<"N", "deg">>,
      <<"N", "r", "o">>,
      <<"#">>,
      <<"N", "u", "m">>,
      <<"N", "o", ".">> >>

\* the names under which the identifier column is looked up
candidatosID == << <<"I", "D">>, <<"I", "d">>, <<"i", "d">> >>

-----------------------------------------------------------------------------
(* Header lookup *)

Min(S) == CHOOSE x \in S : \A y \in S : x <= y

Max(S) == CHOOSE x \in S : \A y \in S : x >= y

\* a sequence with every element evaluated, as a Python list is
list(s) == s \o <<>>

\* scraping.py: the 1-based position of the first header equal, after
\* _normaliza, to the first candidate that has one; 0 for None
_encabezado_idx(headers, candidatos) ==
    LET norm_headers == list([i \in 1..Len(headers) |-> _normaliza(headers[i])])
        c_norm == list([c \in 1..Len(candidatos) |-> _normaliza(candidatos[c])])
        en(c) == {i \in 1..Len(headers) : norm_headers[i] = c_norm[c]}
        cs == {c \in 1..Len(candidatos) : en(c) # {}}
    IN  IF cs = {} THEN 0 ELSE Min(en(Min(cs)))

\* sheets.py: the same search with _norm
_find_header_idx(headers, candidatos) ==
    LET H == list([i \in 1..Len(headers) |-> _norm(headers[i])])
        c_norm == list([c \in 1..Len(candidatos) |-> _norm(candidatos[c])])
        en(c) == {i \in 1..Len(headers) : H[i] = c_norm[c]}
        cs == {c \in 1..Len(candidatos) : en(c) # {}}
    IN  IF cs = {} THEN 0 ELSE Min(en(Min(cs)))

\* the lookup of the copy that runs
BuscarIdx(impl, headers, candidatos) ==
    IF impl = "scraping" THEN _encabezado_idx(headers, candidatos)
    ELSE _find_header_idx(headers, candidatos)

-----------------------------------------------------------------------------
(* The worksheet as the backend shows it *)

\* the cell of a row in column c: empty past the row's last cell
Celda(fila, c) == IF c <= Len(fila) THEN fila[c] ELSE <<>>

\* hoja.col_values(c)[1:]: the cells of column c below the header
col_values(filas, c) == [i \in 1..Len(filas) |-> Celda(filas[i], c)]

\* _asegurar_encabezados with a missing name answered by writing the
\* expected header over the existing one
asegurar_sobrescribe(headers_actuales, esperados) ==
    IF \A h \in {esperados[i] : i \in 1..Len(esperados)} :
          \E i \in 1..Len(headers_actuales) : headers_actuales[i] = h
    THEN [headers |-> headers_actuales, escribe |-> FALSE]
    ELSE [headers |-> esperados, escribe |-> TRUE]

\* _asegurar_encabezados writing the header back on every call, the
\* expected names first
asegurar_reescribe(headers_actuales, esperados) ==
    LET sobra(h) == \A i \in 1..Len(esperados) : esperados[i] # h
    IN  [headers |-> esperados \o SelectSeq(headers_actuales, sobra), escribe |-> TRUE]

\* the header _asegurar_encabezados leaves and returns, and whether it
\* wrote it: headers_actuales is row 1 as read
_asegurar_encabezados(headers_actuales, esperados) ==
    IF headers_actuales = <<>>
    THEN [headers |-> esperados, escribe |-> TRUE]
    ELSE LET falta(h) == \A i \in 1..Len(headers_actuales) : headers_actuales[i] # h
             faltantes == SelectSeq(esperados, falta)
         IN  IF faltantes # <<>>
             THEN [headers |-> headers_actuales \o faltantes, escribe |-> TRUE]
             ELSE [headers |-> headers_actuales, escribe |-> FALSE]

\* the digit characters of a stripped cell
SoloDigitos(v) == SelectSeq(strip(v), isdigit)

\* the loop of _ultimo_numero over the cells of the sequence column
MaxNumero(valores) ==
    LET nums == {int(SoloDigitos(valores[i])) :
                    i \in {j \in 1..Len(valores) : SoloDigitos(valores[j]) # <<>>}}
        pos == {n \in nums : n > 0}
    IN  IF pos = {} THEN 0 ELSE Max(pos)

_ultimo_numero(impl, filas, headers) ==
    LET idx == BuscarIdx(impl, headers, candidatosNumero)
    IN  IF idx = 0 THEN 0 ELSE MaxNumero(col_values(filas, idx))

_ids_existentes(impl, filas, headers) ==
    LET idx == BuscarIdx(impl, headers, candidatosID)
    IN  IF idx = 0 THEN {}
        ELSE LET vals == col_values(filas, idx)
             IN  {strip(vals[i]) : i \in {j \in 1..Len(vals) : strip(vals[j]) # <<>>}}

-----------------------------------------------------------------------------
(* The target date *)

meses == <<"January", "February", "March", "April", "May", "June", "July",
           "August", "September", "October", "November", "December">>

\* the days of month m of year y
DiasDelMes(y, m) ==
    IF m = 2
    THEN (IF (y % 4 = 0 /\ y % 100 # 0) \/ y % 400 = 0 THEN 29 ELSE 28)
    ELSE IF m \in {4, 6, 9, 11} THEN 30 ELSE 31

\* whether every character of s is a digit
TodoDigitos(s) == \A i \in 1..Len(s) : isdigit(s[i])

\* strptime_mes taking every day from 1 to 31 in every month
strptime_laxo(fecha) ==
    LET g == {i \in 1..Len(fecha) : fecha[i] = "-"}
    IN  IF Cardinality(g) # 2 THEN "ValueError"
        ELSE LET g1 == Min(g)
                 g2 == Max(g)
                 Y  == SubSeq(fecha, 1, g1 - 1)
                 M  == SubSeq(fecha, g1 + 1, g2 - 1)
                 D  == SubSeq(fecha, g2 + 1, Len(fecha))
             IN  IF /\ Len(Y) = 4 /\ TodoDigitos(Y) /\ int(Y) >= 1
                    /\ Len(M) \in {1, 2} /\ TodoDigitos(M) /\ int(M) \in 1..12
                    /\ Len(D) \in {1, 2} /\ TodoDigitos(D) /\ int(D) \in 1..31
                 THEN meses[int(M)]
                 ELSE "ValueError"

\* datetime.strptime(fecha, "%Y-%m-%d").strftime("%B").capitalize(): the
\* month name, or "ValueError" when the text is no date of that format
strptime_mes(fecha) ==
    LET g == {i \in 1..Len(fecha) : fecha[i] = "-"}
    IN  IF Cardinality(g) # 2 THEN "ValueError"
        ELSE LET g1 == Min(g)
                 g2 == Max(g)
                 Y  == SubSeq(fecha, 1, g1 - 1)
                 M  == SubSeq(fecha, g1 + 1, g2 - 1)
                 D  == SubSeq(fecha, g2 + 1, Len(fecha))
             IN  IF /\ Len(Y) = 4 /\ TodoDigitos(Y) /\ int(Y) >= 1
                    /\ Len(M) \in {1, 2} /\ TodoDigitos(M) /\ int(M) \in 1..12
                    /\ Len(D) \in {1, 2} /\ TodoDigitos(D)
                    /\ int(D) \in 1..DiasDelMes(int(Y), int(M))
                 THEN meses[int(M)]
                 ELSE "ValueError"

-----------------------------------------------------------------------------
(* The incoming records as a DataFrame *)

\* the value pandas puts where a record has no value for a column; it is
\* no text: no string of characters equals it
NaN == <<"NaN">>

\* the producer fields the records of the model may carry; a record maps
\* each to its text, or to NaN when the record omits the field
CamposEntrada == {"id", "titulo"}

\* pd.DataFrame(resultados).columns: the fields some record carries
Columnas(resultados) ==
    {f \in CamposEntrada : \E i \in 1..Len(resultados) : resultados[i][f] # NaN}

\* the filter left out: every record survives
sin_filtrar(resultados, ids) == [i \in 1..Len(resultados) |-> i]

\* df[~df["id"].isin(ids)]: the index labels (1-based here) of the records
\* whose id is not stored, in order; every label when there is no id column
Sobrevivientes(resultados, ids) ==
    LET pos == [i \in 1..Len(resultados) |-> i]
    IN  IF "id" \in Columnas(resultados)
        THEN SelectSeq(pos, LAMBDA i : resultados[i]["id"] \notin ids)
        ELSE pos

\* df.empty: no row left, or no column at all
Vacio(resultados, sob) == sob = <<>> \/ Columnas(resultados) = {}

\* scraping.py: the new columns are added to the filtered frame itself, so
\* row p is the p-th surviving record; df.get(f, "") is the column of f,
\* or "" when no record carries f
FilasScraping(resultados, sob, ultimo) ==
    LET cols == Columnas(resultados)
        get(f, r) == IF f \in cols THEN resultados[r][f] ELSE <<>>
    IN  [p \in 1..Len(sob) |->
            <<str(ultimo + p)>> \o [c \in 1..Len(campos) |-> get(campos[c], sob[p])]]

\* sheets.py: df_out is a new frame indexed 1..k by its "Numero" column;
\* each other column is assigned from the filtered frame and aligned on the
\* index label: row p takes the record whose original label is p when that
\* record survived, and NaN otherwise
FilasSheets(resultados, sob, ultimo) ==
    LET cols == Columnas(resultados)
        vive(p) == \E q \in 1..Len(sob) : sob[q] = p
        get(f, p) == IF f \notin cols THEN <<>>
                     ELSE IF vive(p) THEN resultados[p][f] ELSE NaN
    IN  [p \in 1..Len(sob) |->
            <<str(ultimo + p)>> \o [c \in 1..Len(campos) |-> get(campos[c], p)]]

\* the rows laid out with the identifier first and the sequence number
\* fourth, as a header that begins with the identifier column would ask
filas_id_primero(impl, resultados, sob, ultimo) ==
    LET f == IF impl = "scraping" THEN FilasScraping(resultados, sob, ultimo)
             ELSE FilasSheets(resultados, sob, ultimo)
    IN  [p \in 1..Len(f) |->
            [c \in 1..Len(f[p]) |->
                IF c = 1 THEN f[p][4] ELSE IF c = 4 THEN f[p][1] ELSE f[p][c]]]

\* df.values.tolist() of the copy that runs
Filas(impl, resultados, sob, ultimo) ==
    IF impl = "scraping" THEN FilasScraping(resultados, sob, ultimo)
    ELSE FilasSheets(resultados, sob, ultimo)

\* whether a batch holds a NaN cell
TieneNaN(filas) ==
    \E i \in 1..Len(filas) : \E c \in 1..Len(filas[i]) : filas[i][c] = NaN

\* append_rows putting the batch above the stored rows
append_arriba(rws, filas) ==
    IF TieneNaN(filas) THEN [ok |-> FALSE, rows |-> rws]
    ELSE [ok |-> TRUE, rows |-> filas \o rws]

\* hoja.append_rows(filas): the request body is JSON, which has no NaN, so
\* a batch with a NaN cell is refused with an exception and nothing is
\* stored; any other batch goes below the last row
append_rows(rws, filas) ==
    IF TieneNaN(filas) THEN [ok |-> FALSE, rows |-> rws]
    ELSE [ok |-> TRUE, rows |-> rws \o filas]

-----------------------------------------------------------------------------
(* guardar_en_hoja *)

\* One whole call of guardar_en_hoja of copy impl ("scraping" or "sheets")
\* on worksheet h = [existe, header, rows]: the worksheet it leaves and
\*   salida   how it ended: "sin_resultados" and "nada_nuevo" are the two
\*            early returns, "ValueError" the unparsable date, "guardado"
\*            the append, "error_append" the refused append
\*   aviso    the warning that deduplication is not possible was printed
\*   conecta  the backend was reached
\*   creada   the worksheet was created
\*   escribe  _asegurar_encabezados wrote the header
\*   headers  what _asegurar_encabezados returned
\*   ultimo   what _ultimo_numero returned
\*   ids      what _ids_existentes returned
\*   nuevas   the rows handed to append_rows
guardar_en_hoja(impl, h, res, fecha) ==
    LET quieto == [existe |-> h.existe, header |-> h.header, rows |-> h.rows,
                   salida |-> "", aviso |-> FALSE, conecta |-> FALSE,
                   creada |-> FALSE, escribe |-> FALSE, headers |-> <<>>,
                   ultimo |-> 0, ids |-> {}, nuevas |-> <<>>]
        mes == strptime_mes(fecha)
    IN  IF res = <<>> THEN [quieto EXCEPT !.salida = "sin_resultados"]
        ELSE IF mes = "ValueError" THEN [quieto EXCEPT !.salida = "ValueError"]
        ELSE
        LET hdr0    == IF h.existe THEN h.header ELSE columnas_ordenadas
            ae      == _asegurar_encabezados(hdr0, columnas_ordenadas)
            headers == ae.headers
            ultimo  == _ultimo_numero(impl, h.rows, headers)
            ids     == _ids_existentes(impl, h.rows, headers)
            sob     == Sobrevivientes(res, ids)
            filas   == Filas(impl, res, sob, ultimo)
            ap      == append_rows(h.rows, filas)
            visto   == [existe |-> TRUE,
                        header |-> IF ae.escribe THEN ae.headers ELSE hdr0,
                        rows |-> h.rows, salida |-> "",
                        aviso |-> (impl = "scraping" /\ "id" \notin Columnas(res)),
                        conecta |-> TRUE, creada |-> ~h.existe,
                        escribe |-> ae.escribe, headers |-> headers,
                        ultimo |-> ultimo, ids |-> ids, nuevas |-> <<>>]
        IN  IF Vacio(res, sob) THEN [visto EXCEPT !.salida = "nada_nuevo"]
            ELSE IF ap.ok
            THEN [visto EXCEPT !.salida = "guardado", !.rows = ap.rows, !.nuevas = filas]
            ELSE [visto EXCEPT !.salida = "error_append", !.nuevas = filas]

-----------------------------------------------------------------------------
(* The calls and the worksheets of the model *)

A1 == <<"A", "1">>

A2 == <<"A", "2">>

\* the records: an id or none, a title or none
Registros == {[id |-> i, titulo |-> t] : i \in {A1, A2, NaN}, t \in {<<"X">>, NaN}}

\* the lists of at most MaxRecs records
Entradas == UNION {[1..n -> Registros] : n \in 0..MaxRecs}

\* a date of August, and a text of the right shape that is no date
Fechas == { <<"2", "0", "2", "4", "-", "0", "8", "-", "1", "5">>,
            <<"2", "0", "2", "4", "-", "0", "2", "-", "3", "0">> }

\* a stored row with sequence cell n and identifier cell i, laid out as
\* the canonical header is; the cells after the identifier are empty
Fila(n, i) == <<n, <<>>, <<>>, i>>

\* the canonical header with its first name replaced
ConNombre(nombre) == <<nombre>> \o Tail(columnas_ordenadas)

\* a header that holds every canonical name, with the identifier column
\* moved to the front and a column of notes at the end
Reordenado ==
    <<ID, Numero, FyHExtraccion, FyHPublicacion>> \o SubSeq(columnas_ordenadas, 5, 13)
        \o << <<"N", "o", "t", "a", "s">> >>

\* the worksheets a first call may find
HojasIniciales ==
    {[existe |-> FALSE, header |-> <<>>, rows |-> <<>>],
     [existe |-> TRUE, header |-> <<>>, rows |-> <<>>]}
    \cup {[existe |-> TRUE, header |-> columnas_ordenadas, rows |-> r] :
            r \in {<<>>, <<Fila(<<"5">>, A1)>>, <<Fila(<<"-", "1">>, <<"A", "1", " ">>)>>}}
    \cup {[existe |-> TRUE, header |-> ConNombre(n), rows |-> <<Fila(<<"5">>, A1)>>] :
            n \in {<<"N", "deg">>, <<"N", "r", "o">>}}
    \cup {[existe |-> TRUE, header |-> SubSeq(columnas_ordenadas, 1, 4),
           rows |-> <<Fila(<<"5">>, A1)>>],
          [existe |-> TRUE, header |-> Reordenado, rows |-> << <<A1, <<"5">>>> >>]}

Impls == {"scraping", "sheets"}

Hoja == [existe |-> existe, header |-> header, rows |-> rows]

\* the record of an operation op of copy impl that found worksheet antes
\* and gave r
Hecho(op, impl, antes, r) ==
    [op |-> op, impl |-> impl, antes |-> antes,
     salida |-> r.salida, aviso |-> r.aviso, conecta |-> r.conecta,
     creada |-> r.creada, escribe |-> r.escribe, headers |-> r.headers,
     ultimo |-> r.ultimo, ids |-> r.ids, nuevas |-> r.nuevas]

\* nothing done yet
Nada ==
    [salida |-> "", aviso |-> FALSE, conecta |-> FALSE, creada |-> FALSE,
     escribe |-> FALSE, headers |-> <<>>, ultimo |-> 0, ids |-> {}, nuevas |-> <<>>]

\* the calls that run step by step
Invocaciones == {1, 2}

\* a call that has not begun
Listo ==
    [pc |-> "listo", impl |-> "", headers |-> <<>>, ultimo |-> 0, ids |-> {},
     vio |-> "", carrera |-> FALSE]

\* the worksheet is h and no call was made
Empieza(h) ==
    /\ existe = h.existe
    /\ header = h.header
    /\ rows = h.rows
    /\ base = Len(h.rows)
    /\ ult = Hecho("inicio", "", h, Nada)
    /\ inv = [i \in Invocaciones |-> Listo]

Init ==
    /\ \E h \in HojasIniciales : Empieza(h)
    /\ pedido \in [resultados : Entradas, fecha_objetivo : Fechas]

\* a call of guardar_en_hoja of copy impl with the caller's arguments
Llamar(impl) ==
    \E r \in {guardar_en_hoja(impl, Hoja, pedido.resultados, pedido.fecha_objetivo)} :
        /\ Len(r.rows) <= MaxRows
        /\ existe' = r.existe
        /\ header' = r.header
        /\ rows' = r.rows
        /\ ult' = Hecho("guardar", impl, Hoja, r)
        /\ UNCHANGED <<base, pedido, inv>>

\* guardar_en_hoja of utils/scraping.py
GuardarScraping == Llamar("scraping")

\* guardar_en_hoja of utils/sheets.py
GuardarSheets == Llamar("sheets")

Next == GuardarScraping \/ GuardarSheets

Spec == Init /\ [][Next]_vars

-----------------------------------------------------------------------------
(* _asegurar_encabezados on its own *)

\* most canonical names a header of SpecEncabezados lacks
MaxFaltan == 2

Notas == <<"N", "o", "t", "a", "s">>

\* the first canonical name in lower case: not the canonical name
numero_minuscula == <<"n", "u^", "m", "e", "r", "o">>

\* the names of a header
Nombres(h) == {h[i] : i \in 1..Len(h)}

Canonicos == Nombres(columnas_ordenadas)

\* three orders of the canonical names: canonical, reversed, rotated
Ordenes ==
    {columnas_ordenadas,
     [i \in 1..Len(columnas_ordenadas) |->
        columnas_ordenadas[Len(columnas_ordenadas) + 1 - i]],
     SubSeq(columnas_ordenadas, 5, 13) \o SubSeq(columnas_ordenadas, 1, 4)}

\* the headers _asegurar_encabezados is given: none, and each order of the
\* canonical names less at most MaxFaltan of them, behind and before
\* columns that are not canonical
EncabezadosIniciales ==
    {<<>>} \cup
    {pre \o SelectSeq(o, LAMBDA h : h \notin F) \o suf :
        o \in Ordenes,
        F \in {G \in SUBSET Canonicos : Cardinality(G) <= MaxFaltan},
        pre \in {<<>>, <<Notas>>},
        suf \in {<<>>, <<numero_minuscula>>}}

SinPedido == [resultados |-> <<>>, fecha_objetivo |-> <<>>]

InitEncabezados ==
    /\ \E h \in EncabezadosIniciales :
          Empieza([existe |-> TRUE, header |-> h, rows |-> <<>>])
    /\ pedido = SinPedido

\* _asegurar_encabezados(hoja, columnas_ordenadas): hoja.update writes
\* row 1 when the function decides to
Asegurar ==
    \E ae \in {_asegurar_encabezados(header, columnas_ordenadas)} :
        /\ header' = IF ae.escribe THEN ae.headers ELSE header
        /\ ult' = Hecho("asegurar", "", Hoja,
                        [Nada EXCEPT !.escribe = ae.escribe, !.headers = ae.headers])
        /\ UNCHANGED <<existe, rows, base, pedido, inv>>

NextEncabezados == Asegurar

SpecEncabezados == InitEncabezados /\ [][NextEncabezados]_vars

\* the place of a canonical name in the canonical order
PosCanonica(n) == CHOOSE i \in 1..Len(columnas_ordenadas) : columnas_ordenadas[i] = n

\* C7 (header augmentation): when the existing header is not empty and
\* lacks a canonical name, _asegurar_encabezados writes and returns the
\* existing header followed by exactly the missing canonical names in
\* canonical order: the existing names keep their places, none is removed,
\* and every canonical name is in the result.
C7_HeaderAugmentation ==
    (/\ ult.op = "asegurar"
     /\ ult.antes.header # <<>>
     /\ ~(Canonicos \subseteq Nombres(ult.antes.header)))
    => LET old == ult.antes.header
           faltan == Canonicos \ Nombres(old)
           cola == (Len(old) + 1)..Len(header)
       IN  /\ ult.escribe
           /\ ult.headers = header
           /\ Len(header) = Len(old) + Cardinality(faltan)
           /\ SubSeq(header, 1, Len(old)) = old
           /\ {header[i] : i \in cola} = faltan
           /\ \A i, j \in cola : i < j => PosCanonica(header[i]) < PosCanonica(header[j])
           /\ Canonicos \subseteq Nombres(header)

\* a header that began with a column of notes and lacked two canonical
\* names was completed
C7_Witness ==
    /\ ult.op = "asegurar"
    /\ ult.antes.header # <<>>
    /\ ult.antes.header[1] = Notas
    /\ Cardinality(Canonicos \ Nombres(ult.antes.header)) = 2
    /\ Len(header) = Len(ult.antes.header) + 2

\* C8 (header preservation): when the existing header holds every
\* canonical name, in any order and with any other columns,
\* _asegurar_encabezados writes no header and returns the existing one.
C8_HeaderPreservation ==
    (/\ ult.op = "asegurar"
     /\ Canonicos \subseteq Nombres(ult.antes.header))
    => /\ ~ult.escribe
       /\ header = ult.antes.header
       /\ ult.headers = ult.antes.header

\* a header with every canonical name in another order, between two
\* columns that are not canonical, went through _asegurar_encabezados
C8_Witness ==
    /\ ult.op = "asegurar"
    /\ Canonicos \subseteq Nombres(ult.antes.header)
    /\ Len(ult.antes.header) = Len(columnas_ordenadas) + 2
    /\ ult.antes.header[2] # Numero
    /\ header = ult.antes.header

-----------------------------------------------------------------------------
(* _ultimo_numero on its own *)

\* most cells of the sequence column of SpecUltimo
MaxCeldas == 4

\* cells of a sequence column: empty, "7", "-1", "3 (pending)", "0"
CeldasNumero ==
    {<<>>, <<"7">>, <<"-", "1">>,
     <<"3", " ", "(", "p", "e", "n", "d", "i", "n", "g", ")">>, <<"0">>}

\* the columns of at most MaxCeldas cells
ColumnasNumero == UNION {[1..n -> CeldasNumero] : n \in 0..MaxCeldas}

\* the worksheets of SpecUltimo: the first column is headed by the
\* canonical name, by an alias of it, or by a name that is no alias, and
\* holds the cells of the column
InitUltimo ==
    /\ \E c \in ColumnasNumero :
       \E n \in {Numero, <<"N", "deg">>, <<"N", "r", "o">>, Notas} :
          Empieza([existe |-> TRUE, header |-> ConNombre(n),
                   rows |-> [i \in 1..Len(c) |-> <<c[i]>>]])
    /\ pedido = SinPedido

\* _ultimo_numero(hoja, headers) of copy impl, headers being row 1
UltimoNumero(impl) ==
    /\ ult' = Hecho("ultimo", impl, Hoja,
                    [Nada EXCEPT !.ultimo = _ultimo_numero(impl, rows, header)])
    /\ UNCHANGED <<existe, header, rows, base, pedido, inv>>

NextUltimo == UltimoNumero("scraping") \/ UltimoNumero("sheets")

SpecUltimo == InitUltimo /\ [][NextUltimo]_vars

\* the sequence number a cell holds for C6: none (0) for a cell that is
\* empty, has no digit or is negative; otherwise the number its digits
\* spell, which is none when it is zero
NumeroValido(v) ==
    LET t == strip(v)
        d == SelectSeq(t, isdigit)
    IN  IF t = <<>> \/ d = <<>> \/ Head(t) = "-" THEN 0 ELSE int(d)

\* C6 (malformed-number tolerance): _ultimo_numero returns the largest
\* valid positive sequence number of the cells below the header of the
\* sequence column; empty, non-numeric, zero and negative cells such as
\* "-1" contribute nothing, and the result is 0 when no cell contributes or
\* there is no sequence column.
C6_MalformedNumbers ==
    ult.op = "ultimo"
    => ult.ultimo =
          IF header[1] = Notas THEN 0
          ELSE Max({0} \cup {NumeroValido(rows[i][1]) : i \in 1..Len(rows)})

-----------------------------------------------------------------------------
(* What the claims about guardar_en_hoja speak of *)

\* the call's date is a date
FechaValida == strptime_mes(pedido.fecha_objetivo) # "ValueError"

\* every record carries an identifier
TodosConId(res) == \A i \in 1..Len(res) : res[i]["id"] # NaN

\* every record carries the same fields
MismosCampos(res) ==
    \A i \in 1..Len(res) : \A f \in CamposEntrada : (res[i][f] = NaN) <=> (res[1][f] = NaN)

\* a name of the sequence column: the canonical one or an alias
EsNombreNumero(n) == \E c \in 1..Len(candidatosNumero) : candidatosNumero[c] = n

\* the number the digits of a cell spell, 0 when it has none
NumeroCelda(v) ==
    LET d == SelectSeq(v, isdigit) IN IF d = <<>> THEN 0 ELSE int(d)

\* the largest sequence number worksheet h stores: over the columns headed
\* by a name of the sequence column, 0 when there is none
PrevioMax(h) ==
    Max({0} \cup {NumeroCelda(Celda(h.rows[i], c)) :
                    i \in 1..Len(h.rows),
                    c \in {x \in 1..Len(h.header) : EsNombreNumero(h.header[x])}})

\* the identifiers worksheet h stores in its fourth column
Guardados(h) == {strip(Celda(h.rows[i], 4)) : i \in 1..Len(h.rows)} \ {<<>>}

\* the text of a field of a record: empty when the record omits it
Texto(v) == IF v = NaN THEN <<>> ELSE v

\* the row of record rec with sequence number n, in canonical layout
FilaDe(rec, n) ==
    <<str(n), <<>>, <<>>, Texto(rec["id"]), Texto(rec["titulo"]),
      <<>>, <<>>, <<>>, <<>>, <<>>, <<>>, <<>>, <<>> >>

\* C1 (idempotent dedup), for records that all carry an identifier and
\* the same fields, on a worksheet with the canonical header: a second run
\* of the same copy with the same records and date stores nothing and
\* ends in the "nothing to add" outcome.
C1_IdempotentDedup ==
    [][(/\ ult.op = "guardar"
        /\ ult'.op = "guardar"
        /\ ult'.impl = ult.impl
        /\ FechaValida
        /\ pedido.resultados # <<>>
        /\ TodosConId(pedido.resultados)
        /\ MismosCampos(pedido.resultados)
        /\ header = columnas_ordenadas)
       => (rows' = rows /\ ult'.salida = "nada_nuevo")]_vars

\* C2 (sequence monotonicity): a call that appends k >= 1 rows writes the
\* sequence numbers previous_max + 1 .. previous_max + k, previous_max
\* being the largest sequence number stored before the call, to the
\* surviving records in their order.
C2_SequenceMonotonicity ==
    (ult.op = "guardar" /\ ult.salida = "guardado")
    => LET previo == IF ult.antes.existe THEN PrevioMax(ult.antes) ELSE 0
           sob == Sobrevivientes(pedido.resultados, ult.ids)
       IN  /\ Len(ult.nuevas) >= 1
           /\ \A p \in 1..Len(ult.nuevas) :
                /\ ult.nuevas[p][1] = str(previo + p)
                /\ ult.nuevas[p][4] = Texto(pedido.resultados[sob[p]]["id"])

\* C3 (sequence numbers unique and increasing): on a worksheet whose first
\* column is the sequence column, no two rows hold the same sequence
\* number, and a row appended by a call holds a larger one than every row
\* above it.
C3_UniqueSequence ==
    (header # <<>> /\ EsNombreNumero(header[1]))
    => \A i, j \in 1..Len(rows) :
          (i < j /\ NumeroCelda(rows[i][1]) > 0 /\ NumeroCelda(rows[j][1]) > 0)
          => /\ NumeroCelda(rows[i][1]) # NumeroCelda(rows[j][1])
             /\ j > base => NumeroCelda(rows[i][1]) < NumeroCelda(rows[j][1])

\* C4 (alias tolerance): on a worksheet whose sequence column is headed
\* "N(deg)" or "Nro", the last sequence number a call recovers is the one
\* it recovers on the same worksheet headed by the canonical name.
C4_AliasTolerance ==
    (/\ ult.op = "guardar"
     /\ ult.conecta
     /\ ult.antes.existe
     /\ ult.antes.header \in {ConNombre(<<"N", "deg">>), ConNombre(<<"N", "r", "o">>)})
    => ult.ultimo =
          guardar_en_hoja(ult.impl, [ult.antes EXCEPT !.header = columnas_ordenadas],
                          pedido.resultados, pedido.fecha_objetivo).ultimo

\* C5 (dedup with partial overlap), on a worksheet with the canonical
\* header and for records that all carry an identifier and the same
\* fields: when some identifiers are stored and some are not, the call
\* appends one row per record whose identifier is not stored, in order,
\* each with the record's identifier and fields and the next sequence
\* number.
C5_PartialOverlap ==
    (/\ ult.op = "guardar"
     /\ ult.conecta
     /\ ult.antes.existe
     /\ ult.antes.header = columnas_ordenadas
     /\ TodosConId(pedido.resultados)
     /\ MismosCampos(pedido.resultados)
     /\ \E i \in 1..Len(pedido.resultados) :
           pedido.resultados[i]["id"] \in Guardados(ult.antes)
     /\ \E i \in 1..Len(pedido.resultados) :
           pedido.resultados[i]["id"] \notin Guardados(ult.antes))
    => LET res == pedido.resultados
           pos == [i \in 1..Len(res) |-> i]
           quedan == SelectSeq(pos, LAMBDA i : res[i]["id"] \notin Guardados(ult.antes))
       IN  /\ ult.salida = "guardado"
           /\ ult.nuevas = [p \in 1..Len(quedan) |->
                              FilaDe(res[quedan[p]], PrevioMax(ult.antes) + p)]
           /\ rows = ult.antes.rows \o ult.nuevas

\* C9 (no identifier field), for records that carry the same fields, one
\* at least: the call skips deduplication, appends every record with the
\* sequence numbers after the last one recovered, and prints the warning
\* that deduplication was not possible.
C9_MissingIdField ==
    (/\ ult.op = "guardar"
     /\ ult.conecta
     /\ "id" \notin Columnas(pedido.resultados)
     /\ Columnas(pedido.resultados) # {}
     /\ MismosCampos(pedido.resultados))
    => /\ ult.salida = "guardado"
       /\ ult.nuevas = [p \in 1..Len(pedido.resultados) |->
                          FilaDe(pedido.resultados[p], ult.ultimo + p)]
       /\ rows = ult.antes.rows \o ult.nuevas
       /\ ult.aviso

\* C10 (first write): when the worksheet of the month does not exist and
\* k >= 1 records, which carry some field, are given, the call creates it
\* with the canonical header and appends k rows with the sequence numbers
\* 1..k and the records' identifiers in input order.
C10_FirstWrite ==
    (/\ ult.op = "guardar"
     /\ ~ult.antes.existe
     /\ FechaValida
     /\ pedido.resultados # <<>>
     /\ Columnas(pedido.resultados) # {})
    => /\ existe /\ ult.creada
       /\ header = columnas_ordenadas
       /\ ult.salida = "guardado"
       /\ Len(rows) = Len(pedido.resultados)
       /\ \A p \in 1..Len(rows) :
             /\ rows[p][1] = str(p)
             /\ rows[p][4] = Texto(pedido.resultados[p]["id"])

-----------------------------------------------------------------------------
(* The date, the empty outcomes *)

\* the thirtieth of February: a text of the format that names no day
Febrero30 == <<"2", "0", "2", "4", "-", "0", "2", "-", "3", "0">>

\* the call's date cannot be parsed
NoSeParsea == pedido.fecha_objetivo = Febrero30

\* the call reached no backend operation and left the worksheet as found
SinBackend ==
    /\ ~ult.conecta /\ ~ult.creada /\ ~ult.escribe
    /\ ult.nuevas = <<>>
    /\ Hoja = ult.antes

\* C11 as stated (invalid date): every call whose date cannot be parsed
\* fails with an error and performs no backend operation.
C11_InvalidDate ==
    (ult.op = "guardar" /\ NoSeParsea)
    => (ult.salida = "ValueError" /\ SinBackend)

\* C11 amended: a call whose date cannot be parsed performs no backend
\* operation; it fails with an error when it is given records, and returns
\* normally with the "no results" message when the list is empty, which is
\* tested before the date is parsed.
C11_InvalidDateNonEmpty ==
    (ult.op = "guardar" /\ NoSeParsea)
    => /\ SinBackend
       /\ ult.salida = IF pedido.resultados = <<>> THEN "sin_resultados"
                       ELSE "ValueError"

\* a call with records and the thirtieth of February has failed
C11_Witness ==
    /\ ult.op = "guardar" /\ NoSeParsea
    /\ pedido.resultados # <<>>
    /\ ult.salida = "ValueError"
    /\ ult.antes.existe /\ ult.antes.rows # <<>>

\* the identifiers worksheet h stores: the trimmed cells, not empty, of
\* the columns headed "ID"
IdsGuardados(h) ==
    {strip(Celda(h.rows[i], c)) :
        i \in 1..Len(h.rows), c \in {x \in 1..Len(h.header) : h.header[x] = ID}}
    \ {<<>>}

\* every record carries an identifier that worksheet h stores
TodosGuardados(res, h) ==
    /\ res # <<>>
    /\ \A i \in 1..Len(res) : res[i]["id"] # NaN /\ res[i]["id"] \in IdsGuardados(h)

\* the call returned normally, handed nothing to append_rows and left the
\* data rows as found
NoOp ==
    /\ ult.salida \in {"sin_resultados", "nada_nuevo"}
    /\ ult.nuevas = <<>>
    /\ rows = ult.antes.rows

\* C12 as stated (empty result): when the list is empty, or every
\* record's identifier is stored in the worksheet, the call returns
\* normally, appends nothing and leaves the data rows unchanged.
C12_EmptyResult ==
    (/\ ult.op = "guardar"
     /\ (pedido.resultados = <<>> \/ TodosGuardados(pedido.resultados, ult.antes)))
    => NoOp

\* C12 amended: the same when the list is empty, whatever the date, and
\* when every record's identifier is stored and the date can be parsed; the
\* first ends with the "no results" message, the second with "nothing to
\* add".
C12_EmptyResultValidDate ==
    (/\ ult.op = "guardar"
     /\ \/ pedido.resultados = <<>>
        \/ (FechaValida /\ TodosGuardados(pedido.resultados, ult.antes)))
    => /\ NoOp
       /\ ult.salida = IF pedido.resultados = <<>> THEN "sin_resultados"
                       ELSE "nada_nuevo"

\* a call whose records are all stored has returned with nothing to add
C12_Witness ==
    /\ ult.op = "guardar"
    /\ FechaValida
    /\ TodosGuardados(pedido.resultados, ult.antes)
    /\ ult.salida = "nada_nuevo"
    /\ rows # <<>>

-----------------------------------------------------------------------------
(* The two copies, the stored rows, the fields, the layout *)

\* the copy that is not impl
OtraCopia(impl) == IF impl = "scraping" THEN "sheets" ELSE "scraping"

\* C15 (the two copies agree): on the worksheet a call found, with the
\* same records and date, the other copy leaves the same header and the
\* same rows stored, and ends the same way.
C15_CopiesAgree ==
    ult.op = "guardar"
    => LET otra == guardar_en_hoja(OtraCopia(ult.impl), ult.antes,
                                   pedido.resultados, pedido.fecha_objetivo)
       IN  /\ otra.header = header
           /\ otra.rows = rows
           /\ otra.salida = ult.salida

\* sequence a is the beginning of sequence b
EmpiezaCon(b, a) == Len(a) <= Len(b) /\ SubSeq(b, 1, Len(a)) = a

\* C16 (append-only partition): a call leaves every row stored before it
\* as it was and where it was, and every header name where it was; what it
\* adds are header names after the last one and the rows it appended after
\* the last row.
C16_AppendOnly ==
    ult.op = "guardar"
    => /\ EmpiezaCon(rows, ult.antes.rows)
       /\ EmpiezaCon(header, ult.antes.header)
       /\ rows \in {ult.antes.rows, ult.antes.rows \o ult.nuevas}
       /\ ult.antes.existe => existe

\* a call has added header names and a row to a worksheet that stored a row
C16_Witness ==
    /\ ult.op = "guardar"
    /\ ult.salida = "guardado"
    /\ ult.escribe
    /\ ult.antes.rows # <<>>
    /\ ult.antes.header # <<>>
    /\ Len(rows) > Len(ult.antes.rows)
    /\ Len(header) > Len(ult.antes.header)

\* the text the canonical column after the sequence number, c-th of the
\* twelve, is to hold for record rec: the record's value of the producer
\* field of that column, empty when the record omits the field
ValorDe(rec, c) ==
    IF campos[c] \in CamposEntrada THEN Texto(rec[campos[c]]) ELSE <<>>

\* C17 (field mapping with omitted fields): a call that has records left
\* to append appends them, and in the row of each one every canonical
\* column other than the sequence number holds the record's value of the
\* corresponding producer field, or the empty string when the record omits
\* it.
C17_FieldMapping ==
    (ult.op = "guardar" /\ ult.nuevas # <<>>)
    => LET sob == Sobrevivientes(pedido.resultados, ult.ids)
       IN  /\ ult.salida = "guardado"
           /\ Len(ult.nuevas) = Len(sob)
           /\ \A p \in 1..Len(sob) : \A c \in 1..Len(campos) :
                 ult.nuevas[p][c + 1] = ValorDe(pedido.resultados[sob[p]], c)

\* the values the records have in field f, with the empty string and NaN
ValoresDe(f) ==
    {pedido.resultados[i][f] : i \in 1..Len(pedido.resultados)} \cup {<<>>, NaN}

\* C18 (canonical output order): every row handed to append_rows has 13
\* cells in the canonical order, whatever the header that
\* _asegurar_encabezados returned: the sequence number first, a value of
\* the field id fourth, a value of the field titulo fifth, and the columns
\* of the fields no record carries empty.
C18_CanonicalOrder ==
    (ult.op = "guardar" /\ ult.nuevas # <<>>)
    => \A p \in 1..Len(ult.nuevas) :
          LET fila == ult.nuevas[p]
          IN  /\ Len(fila) = Len(columnas_ordenadas)
              /\ fila[1] = str(ult.ultimo + p)
              /\ fila[4] \in ValoresDe("id")
              /\ fila[5] \in ValoresDe("titulo")
              /\ \A c \in (1..Len(fila)) \ {1, 4, 5} : fila[c] = <<>>

\* a call on the worksheet whose header begins with the identifier column
\* and has a column more has appended a row with an identifier and a title
C18_Witness ==
    /\ ult.op = "guardar"
    /\ ult.salida = "guardado"
    /\ ult.headers = Reordenado
    /\ Len(ult.headers) # Len(columnas_ordenadas)
    /\ \E p \in 1..Len(ult.nuevas) :
          ult.nuevas[p][4] \in {A1, A2} /\ ult.nuevas[p][5] = <<"X">>

-----------------------------------------------------------------------------
(* guardar_en_hoja step by step: one action per backend operation, for     *)
(* two calls with the caller's arguments that may interleave or be cut    *)
(* short                                                                   *)

\* the other call
Otra(i) == CHOOSE j \in Invocaciones : j # i

\* where a call that has begun and not ended is: connected, worksheet
\* created, worksheet open, header reconciled, columns read, rows appended
EnCurso == {"conectada", "creada", "abierta", "encabezada", "leida", "agregada"}

\* call i goes on as r
Pasa(i, r) == inv' = [inv EXCEPT ![i] = r]

\* the entry of a call of copy impl: the empty list returns, the date is
\* parsed, conectar_google_sheets is called; vio keeps where the other call
\* was at that time.  The two calls are calls of one program, so of the
\* same copy, and the call named 2 is the one that begins second.
Empezar(i, impl) ==
    /\ inv[i].pc = "listo"
    /\ inv[Otra(i)].impl \in {"", impl}
    /\ i = 2 => inv[1].pc # "listo"
    /\ Pasa(i, [inv[i] EXCEPT
                  !.impl = impl,
                  !.vio = inv[Otra(i)].pc,
                  !.pc = IF pedido.resultados = <<>> THEN "fin"
                         ELSE IF strptime_mes(pedido.fecha_objetivo) = "ValueError"
                         THEN "error"
                         ELSE "conectada"])
    /\ UNCHANGED <<existe, header, rows, base, pedido, ult>>

\* sheet.worksheet(mes), and sheet.add_worksheet(...) when it is not found
Abrir(i) ==
    /\ inv[i].pc = "conectada"
    /\ IF existe
       THEN /\ Pasa(i, [inv[i] EXCEPT !.pc = "abierta"])
            /\ UNCHANGED <<existe, header, rows>>
       ELSE /\ existe' = TRUE
            /\ header' = <<>>
            /\ rows' = <<>>
            /\ Pasa(i, [inv[i] EXCEPT !.pc = "creada"])
    /\ UNCHANGED <<base, pedido, ult>>

\* hoja.update('A1', [columnas_ordenadas]) on the worksheet just created
Titular(i) ==
    /\ inv[i].pc = "creada"
    /\ header' = columnas_ordenadas
                   \o SubSeq(header, Len(columnas_ordenadas) + 1, Len(header))
    /\ Pasa(i, [inv[i] EXCEPT !.pc = "abierta"])
    /\ UNCHANGED <<existe, rows, base, pedido, ult>>

\* headers = _asegurar_encabezados(hoja, columnas_ordenadas)
Encabezar(i) ==
    /\ inv[i].pc = "abierta"
    /\ \E ae \in {_asegurar_encabezados(header, columnas_ordenadas)} :
          /\ header' = IF ae.escribe THEN ae.headers ELSE header
          /\ Pasa(i, [inv[i] EXCEPT !.pc = "encabezada", !.headers = ae.headers])
    /\ UNCHANGED <<existe, rows, base, pedido, ult>>

\* ultimo = _ultimo_numero(hoja, headers); ids = _ids_existentes(hoja, headers)
Leer(i) ==
    /\ inv[i].pc = "encabezada"
    /\ Pasa(i, [inv[i] EXCEPT
                  !.pc = "leida",
                  !.ultimo = _ultimo_numero(inv[i].impl, rows, inv[i].headers),
                  !.ids = _ids_existentes(inv[i].impl, rows, inv[i].headers)])
    /\ UNCHANGED <<existe, header, rows, base, pedido, ult>>

\* the filter, the early return on an empty frame, the mapping and
\* hoja.append_rows, with what the call read; carrera keeps whether the
\* other call had read and not yet appended
Agregar(i) ==
    /\ inv[i].pc = "leida"
    /\ LET res   == pedido.resultados
           sob   == Sobrevivientes(res, inv[i].ids)
           filas == Filas(inv[i].impl, res, sob, inv[i].ultimo)
           ap    == append_rows(rows, filas)
       IN  IF Vacio(res, sob)
           THEN Pasa(i, [inv[i] EXCEPT !.pc = "fin"]) /\ rows' = rows
           ELSE IF ap.ok
           THEN /\ Len(ap.rows) <= MaxRows
                /\ rows' = ap.rows
                /\ Pasa(i, [inv[i] EXCEPT
                              !.pc = IF inv[i].impl = "scraping" THEN "agregada"
                                     ELSE "fin",
                              !.carrera = (inv[Otra(i)].pc = "leida")])
           ELSE Pasa(i, [inv[i] EXCEPT !.pc = "error"]) /\ rows' = rows
    /\ UNCHANGED <<existe, header, base, pedido, ult>>

\* the formatting loop of scraping.py: get_all_values, acell and format
\* change the background of cells and no value
Formatear(i) ==
    /\ inv[i].pc = "agregada"
    /\ Pasa(i, [inv[i] EXCEPT !.pc = "fin"])
    /\ UNCHANGED <<existe, header, rows, base, pedido, ult>>

\* a backend operation raises (quota, network): the call ends where it is
Abortar(i) ==
    /\ inv[i].pc \in EnCurso
    /\ Pasa(i, [inv[i] EXCEPT !.pc = "abortada"])
    /\ UNCHANGED <<existe, header, rows, base, pedido, ult>>

NextPasos ==
    \E i \in Invocaciones :
        \/ \E impl \in Impls : Empezar(i, impl)
        \/ Abrir(i)
        \/ Titular(i)
        \/ Encabezar(i)
        \/ Leer(i)
        \/ Agregar(i)
        \/ Formatear(i)
        \/ Abortar(i)

SpecPasos == Init /\ [][NextPasos]_vars

-----------------------------------------------------------------------------
(* Two calls: in a race, one after the other, one after a cut-short one *)

\* the sequence number and the identifier of a stored row, on a worksheet
\* laid out as the canonical header is
SeqDe(fila) == NumeroCelda(Celda(fila, 1))

IdDe(fila) == strip(Celda(fila, 4))

\* two stored rows share a sequence number
MismoNumero ==
    \E i, j \in 1..Len(rows) :
        i < j /\ SeqDe(rows[i]) > 0 /\ SeqDe(rows[i]) = SeqDe(rows[j])

\* two stored rows share an identifier
MismoId ==
    \E i, j \in 1..Len(rows) :
        i < j /\ IdDe(rows[i]) # <<>> /\ IdDe(rows[i]) = IdDe(rows[j])

\* the worksheet the calls found has the sequence column first, under its
\* canonical name or an alias, and the identifier column fourth
DisposicionCanonica ==
    /\ ult.antes.existe
    /\ Len(ult.antes.header) >= 4
    /\ EsNombreNumero(ult.antes.header[1])
    /\ ult.antes.header[4] = ID

\* no two records of the list carry the same identifier
SinRepetidos(res) ==
    \A i, j \in 1..Len(res) : (i < j /\ res[i]["id"] # NaN) => res[i]["id"] # res[j]["id"]

\* the calls ran one after the other: none began while the other was
\* under way, none was cut short
EnSerie ==
    \A i \in Invocaciones :
        inv[i].vio \notin (EnCurso \cup {"abortada"}) /\ inv[i].pc # "abortada"

\* C13 (unserialized writers race), the half about serialized calls: two
\* calls with records of distinct identifiers that run one after the other
\* reach no state in which two stored rows share a sequence number or
\* share an identifier.
C13_SerialNoDuplicates ==
    (EnSerie /\ DisposicionCanonica /\ SinRepetidos(pedido.resultados))
    => (~MismoNumero /\ ~MismoId)

\* C13, the half about the race: on a worksheet with the canonical header,
\* two calls that both read before either appended have ended, and two
\* stored rows share a sequence number and an identifier
C13_RaceWitness ==
    /\ ult.antes.header = columnas_ordenadas
    /\ SinRepetidos(pedido.resultados)
    /\ \A i \in Invocaciones : inv[i].pc = "fin"
    /\ \E i \in Invocaciones : inv[i].carrera
    /\ MismoNumero
    /\ MismoId

\* C14 (re-runnable after partial failure), for records that all carry an
\* identifier: when a call was cut short at a backend step and the call
\* that followed it has ended, the worksheet holds the header and the rows
\* that one uninterrupted call leaves on the worksheet the first call
\* found.
C14_RerunAfterAbort ==
    (/\ inv[1].pc = "abortada"
     /\ inv[2].vio = "abortada"
     /\ inv[2].pc = "fin"
     /\ TodosConId(pedido.resultados))
    => LET una == guardar_en_hoja(inv[2].impl, ult.antes, pedido.resultados,
                                  pedido.fecha_objetivo)
       IN  /\ header = una.header
           /\ rows = una.rows

=============================================================================
